---------------------------- MODULE Spec2Model ----------------------------
(***************************************************************************)
(* Model of the two ESP32 bridge sketches of Shaman-1:                     *)
(*   - the Noise sketch  (src/unnamed/part_001): reads a line              *)
(*     "NOISE <duration_ms> <peak_dbfs>" from the Teensy link, parses it   *)
(*     and POSTs a JSON event;                                             *)
(*   - the State sketch  (src/Tests_2.0/test_connections/esp_to_api/       *)
(*     esp_to_api.ino): reads a line, drives the LED on LED_ON / LED_OFF   *)
(*     and POSTs the line as the `state` of a JSON event.                  *)
(* A text line is a sequence of one-character strings.  The Arduino String *)
(* methods the sketches call are modelled on such sequences with the       *)
(* 0-based indices the C++ code uses.                                      *)
(***************************************************************************)
EXTENDS Integers, Sequences, FiniteSets, TLC

VARIABLES
    sketch,      \* which sketch is flashed: "Noise" or "State"
    pc,          \* control location of the single thread
    ret,         \* who called ensureWifi(): "setup" or "send"
    wifi,        \* WiFi.status() == WL_CONNECTED
    led,         \* level of LED_PIN: TRUE = lit
    now,         \* time(NULL), in seconds
    raw,         \* the line as Link.readStringUntil('\n') returned it
    line,        \* the line after trim()  (`line` / `msg` in loop())
    parsed,      \* result of parseNOISE (Noise sketch)
    dur_ms,      \* loop() local dur_ms
    peak,        \* loop() local peak, an exact decimal [num, den]
    code,        \* value returned by postNoise / postEvent
    body,        \* body handed to http.POST in this iteration (<<>>: none)
    trace,       \* what the current iteration did so far, in order
    nRead,       \* history: lines read since startup
    nAccepted,   \* history: lines read that yielded an event
    nSendCalls,  \* history: calls of postNoise / postEvent
    lastOutcome, \* history: how the previous iteration ended
    allSame,     \* history: every line read so far was the same line
    readAt,      \* history: the clock when the current line was read
    lastToken    \* history: last LED token received (State sketch)

vars == <<sketch, pc, ret, wifi, led, now, raw, line, parsed, dur_ms, peak,
          code, body, trace, nRead, nAccepted, nSendCalls, lastOutcome, allSame, readAt, lastToken>>

---------------------------------------------------------------------------
(* Bounds of the model.                                                    *)

\* lines read in one run
MaxLines == 3
\* seconds the clock may advance in one run
MaxClock == 1
\* longest generated duration field (parser specification)
MaxDurLen == 2
\* longest generated peak field (parser specification)
MaxPeakLen == 4

---------------------------------------------------------------------------
(* Characters and words.                                                   *)

Digits == <<"0", "1", "2", "3", "4", "5", "6", "7", "8", "9">>

IsDigit(c) == \E i \in 1..10 : Digits[i] = c

DigitVal(c) == (CHOOSE i \in 1..10 : Digits[i] = c) - 1

\* isspace() of the C library, on the characters the model uses
IsSpace(c) == c \in {" ", "\t", "\r", "\n"}

W_NOISE == <<"N", "O", "I", "S", "E">>

W_LED_ON == <<"L", "E", "D", "_", "O", "N">>

W_LED_OFF == <<"L", "E", "D", "_", "O", "F", "F">>

\* the largest and smallest value of a `long` on the ESP32 (32 bits)
LONG_MAX == 2147483647

LONG_MIN == (-2147483647) - 1

---------------------------------------------------------------------------
(* Arduino String methods.                                                 *)

RECURSIVE SkipSpace(_, _)
\* index (1-based) of the first non-space character of s at or after i
SkipSpace(s, i) ==
    IF i <= Len(s) /\ IsSpace(s[i]) THEN SkipSpace(s, i + 1) ELSE i

RECURSIVE LastNonSpace(_, _)
\* index (1-based) of the last non-space character of s at or before i, or 0
LastNonSpace(s, i) ==
    IF i >= 1 /\ IsSpace(s[i]) THEN LastNonSpace(s, i - 1) ELSE i

\* String::trim(): drops leading and trailing isspace() characters
trim(s) == SubSeq(s, SkipSpace(s, 1), LastNonSpace(s, Len(s)))

\* String::startsWith(prefix)
startsWith(s, prefix) ==
    /\ Len(s) >= Len(prefix)
    /\ SubSeq(s, 1, Len(prefix)) = prefix

\* String::indexOf(ch, from): 0-based index of the first ch at or after
\* `from`, or -1
indexOf(s, ch, from) ==
    IF \E i \in (from + 1)..Len(s) : s[i] = ch
    THEN (CHOOSE i \in (from + 1)..Len(s) :
              /\ s[i] = ch
              /\ \A j \in (from + 1)..(i - 1) : s[j] # ch) - 1
    ELSE -1

\* String::substring(left, right): characters left..right-1 (0-based);
\* the bounds are swapped when left > right, and right is cut to length()
substring(s, left, right) ==
    LET lo == IF left > right THEN right ELSE left
        hi0 == IF left > right THEN left ELSE right
        hi == IF hi0 > Len(s) THEN Len(s) ELSE hi0
    IN  IF lo >= Len(s) THEN <<>> ELSE SubSeq(s, lo + 1, hi)

\* String::substring(left): from left to the end
substringFrom(s, left) == substring(s, left, Len(s))

RECURSIVE StrtolDigits(_, _, _, _)
\* the digit loop of strtol(s, NULL, 10): acc holds the value with the sign
\* applied; once the value leaves the range of long the result saturates
\* (LONG_MAX or LONG_MIN) while the remaining digits are still consumed
StrtolDigits(s, i, acc, neg) ==
    IF i > Len(s) \/ ~IsDigit(s[i]) THEN acc
    ELSE LET d == DigitVal(s[i])
             cutoff == LONG_MAX \div 10
         IN  IF neg
             THEN IF acc < -cutoff \/ (acc = -cutoff /\ d > 8)
                  THEN LONG_MIN
                  ELSE StrtolDigits(s, i + 1, acc * 10 - d, neg)
             ELSE IF acc > cutoff \/ (acc = cutoff /\ d > 7)
                  THEN LONG_MAX
                  ELSE StrtolDigits(s, i + 1, acc * 10 + d, neg)

\* String::toInt() == atol(buffer): leading spaces, an optional sign, then
\* the longest run of digits; 0 when there is none
toInt(s) ==
    LET i == SkipSpace(s, 1)
        signed == i <= Len(s) /\ s[i] \in {"-", "+"}
        neg == signed /\ s[i] = "-"
        j == IF signed THEN i + 1 ELSE i
    IN  StrtolDigits(s, j, 0, neg)

RECURSIVE Pow10(_)
Pow10(n) == IF n = 0 THEN 1 ELSE 10 * Pow10(n - 1)

RECURSIVE Normal(_, _)
\* the decimal num/den (den a power of ten) in lowest decimal terms, so that
\* equal values are equal records
Normal(num, den) ==
    IF den > 1 /\ num % 10 = 0 THEN Normal(num \div 10, den \div 10)
    ELSE [num |-> num, den |-> den]

RECURSIVE AtofInt(_, _, _)
\* integer part of atof: <<mantissa, next index>>
AtofInt(s, i, acc) ==
    IF i > Len(s) \/ ~IsDigit(s[i]) THEN <<acc, i>>
    ELSE AtofInt(s, i + 1, acc * 10 + DigitVal(s[i]))

RECURSIVE AtofFrac(_, _, _, _)
\* fraction part of atof: <<mantissa, number of fraction digits>>
AtofFrac(s, i, acc, n) ==
    IF i > Len(s) \/ ~IsDigit(s[i]) THEN <<acc, n>>
    ELSE AtofFrac(s, i + 1, acc * 10 + DigitVal(s[i]), n + 1)

\* String::toFloat() == float(atof(buffer)): leading spaces, an optional
\* sign, digits, an optional '.' and digits; the scan stops at the first
\* character that fits none of these, 0 when no digit was read.  The value
\* is kept as the exact decimal num/den (the binary rounding of `float` is
\* not modelled; the model's alphabet has no exponent letter).
toFloat(s) ==
    LET i == SkipSpace(s, 1)
        signed == i <= Len(s) /\ s[i] \in {"-", "+"}
        neg == signed /\ s[i] = "-"
        j == IF signed THEN i + 1 ELSE i
        ip == AtofInt(s, j, 0)
        k == ip[2]
        fp == IF k <= Len(s) /\ s[k] = "."
              THEN AtofFrac(s, k + 1, ip[1], 0)
              ELSE <<ip[1], 0>>
        any == (k > j) \/ fp[2] > 0
        mant == IF any THEN fp[1] ELSE 0
    IN  Normal(IF neg THEN -mant ELSE mant, IF any THEN Pow10(fp[2]) ELSE 1)

RECURSIVE LongDigits(_)
\* decimal digits of a non-negative long, most significant first
LongDigits(n) ==
    IF n < 10 THEN <<Digits[n + 1]>>
    ELSE Append(LongDigits(n \div 10), Digits[(n % 10) + 1])

\* String(long): the decimal text of a long (the magnitude of LONG_MIN is
\* no long, so its digits are those of LONG_MAX with the last one raised)
LongToString(n) ==
    IF n >= 0 THEN LongDigits(n)
    ELSE IF n = LONG_MIN
         THEN <<"-">> \o Append(LongDigits(LONG_MAX \div 10), "8")
         ELSE <<"-">> \o LongDigits(-n)

\* String(float, 2): the value in hundredths, rounded to the nearest one
\* (a tie goes away from zero; lines of the loop specification carry at
\* most two fraction digits, so no rounding happens there)
Fixed2(x) ==
    LET mag == IF x.num < 0 THEN -x.num ELSE x.num
        h == (mag * 200 + x.den) \div (2 * x.den)
    IN  IF x.num < 0 THEN -h ELSE h

---------------------------------------------------------------------------
(* parseNOISE (Noise sketch).                                              *)

Zero == [num |-> 0, den |-> 1]

\* parseNOISE splitting the line into all its fields and reading the peak
\* from the last one
parseNOISE_LastField(l, dur0, peak0) ==
    LET s1 == indexOf(l, " ", 0)
        s2 == indexOf(l, " ", s1 + 1)
        last == CHOOSE i \in 0..Len(l) :
                    /\ i > 0 => l[i] = " "
                    /\ \A j \in (i + 1)..Len(l) : l[j] # " "
        d == toInt(substring(l, s1 + 1, s2))
    IN  IF ~startsWith(l, W_NOISE) \/ s1 < 0 \/ s2 < 0
        THEN [ok |-> FALSE, dur |-> dur0, peak |-> peak0]
        ELSE [ok |-> d > 0, dur |-> d, peak |-> toFloat(substringFrom(l, last))]

\* parseNOISE with the end of the duration field taken as inclusive: the
\* field loses its last character
parseNOISE_ShortDur(l, dur0, peak0) ==
    LET s1 == indexOf(l, " ", 0)
        s2 == indexOf(l, " ", s1 + 1)
        d == toInt(substring(l, s1 + 1, s2 - 1))
    IN  IF ~startsWith(l, W_NOISE) \/ s1 < 0 \/ s2 < 0
        THEN [ok |-> FALSE, dur |-> dur0, peak |-> peak0]
        ELSE [ok |-> d > 0, dur |-> d, peak |-> toFloat(substringFrom(l, s2 + 1))]

\* parseNOISE(line, out_dur_ms, out_peak_dbfs): ok is the returned bool,
\* dur and peak the two out-parameters after the call (they keep the
\* caller's values dur0, peak0 on the three early returns)
parseNOISE(l, dur0, peak0) ==
    LET s1 == indexOf(l, " ", 0)
        s2 == indexOf(l, " ", s1 + 1)
        d == toInt(substring(l, s1 + 1, s2))
    IN  IF ~startsWith(l, W_NOISE) THEN [ok |-> FALSE, dur |-> dur0, peak |-> peak0]
        ELSE IF s1 < 0 THEN [ok |-> FALSE, dur |-> dur0, peak |-> peak0]
        ELSE IF s2 < 0 THEN [ok |-> FALSE, dur |-> dur0, peak |-> peak0]
        ELSE [ok |-> d > 0, dur |-> d, peak |-> toFloat(substringFrom(l, s2 + 1))]

---------------------------------------------------------------------------
(* Inputs of the loop specification.                                       *)

Sp == <<" ">>

Cr == <<"\r">>

F_1234 == <<"1", "2", "3", "4">>

F_m12_34 == <<"-", "1", "2", ".", "3", "4">>

F_big == <<"2", "1", "4", "7", "4", "8", "3", "6", "4", "8">>

\* lines the Teensy link may deliver to either sketch (as read, before
\* trim): empty and blank lines, the two LED tokens with and without
\* padding, near misses of them, Noise lines that are well formed and Noise
\* lines that are broken in each of the ways parseNOISE looks at
LoopLines ==
    { <<>>,
      Cr,
      W_LED_ON,
      W_LED_OFF \o Cr,
      Sp \o W_LED_ON,
      <<"l", "e", "d", "_", "o", "n">>,
      <<"L", "E", "D">> \o Sp \o <<"O", "N">>,
      W_NOISE \o Sp \o F_1234 \o Sp \o F_m12_34,
      W_NOISE \o Sp \o <<"7">> \o Sp \o <<"1", ".", "5">> \o Cr,
      W_NOISE \o Sp \o <<"a", "b", "c">> \o Sp \o <<"-", "5">>,
      W_NOISE \o Sp \o <<"0">> \o Sp \o <<"-", "5">>,
      W_NOISE \o Sp \o <<"-", "5">> \o Sp \o <<"1">>,
      W_NOISE \o Sp \o <<"1", "2", "a">> \o Sp \o <<"3">>,
      W_NOISE \o Sp \o <<"7">>,
      W_NOISE,
      <<"N", "O", "I", "S">> \o Sp \o <<"5">> \o Sp \o <<"1">>,
      W_NOISE \o Sp \o <<"5">> \o Sp \o <<"1">> \o Sp \o <<"x">>,
      W_NOISE \o Sp \o F_big \o Sp \o <<"-", "3">> }

\* HTTPClient::POST returns the status the server answered (a positive
\* number) or a negative HTTPC_ERROR_* code (-11: read timeout)
PostCodes == {-11, 99, 100, 200, 399, 400}

\* DEVICE_ID of the Noise sketch, and the id loop() passes in the State
\* sketch
DeviceId == IF sketch = "Noise" THEN "esp32-01" ELSE "esp32-s3-01"

---------------------------------------------------------------------------
(* The sketches.                                                           *)

Init ==
    /\ sketch \in {"Noise", "State"}
    /\ pc = "setup"
    /\ ret = "setup"
    /\ wifi = FALSE
    /\ led = FALSE
    /\ now = 0
    /\ raw = <<>>
    /\ line = <<>>
    /\ parsed = FALSE
    /\ dur_ms = 0
    /\ peak = Zero
    /\ code = 0
    /\ body = <<>>
    /\ trace = <<>>
    /\ nRead = 0
    /\ nAccepted = 0
    /\ nSendCalls = 0
    /\ lastOutcome = "none"
    /\ allSame = TRUE
    /\ readAt = 0
    /\ lastToken = "none"

\* setup(): led_off(), then ensureWifi()
setup ==
    /\ pc = "setup"
    /\ led' = FALSE
    /\ trace' = <<"setup">>
    /\ ret' = "setup"
    /\ pc' = "gate"
    /\ UNCHANGED <<sketch, wifi, now, raw, line, parsed, dur_ms, peak, code,
                   body, nRead, nAccepted, nSendCalls, lastOutcome, allSame, readAt, lastToken>>

\* where ensureWifi() returns to
AfterGate == IF ret = "setup" THEN "idle" ELSE "begin"

\* ensureWifi(), first line: return at once when connected; otherwise
\* WiFi.mode(), WiFi.begin() and enter the polling loop
ensureWifi ==
    /\ pc = "gate"
    /\ IF wifi
       THEN /\ trace' = Append(trace, "wifi_ok")
            /\ pc' = AfterGate
       ELSE /\ trace' = Append(trace, "wifi_begin")
            /\ pc' = "wait"
    /\ UNCHANGED <<sketch, ret, wifi, led, now, raw, line, parsed, dur_ms, peak,
                   code, body, nRead, nAccepted, nSendCalls, lastOutcome, allSame, readAt, lastToken>>

\* the polling loop giving up: it may return while not connected
ensureWifi_poll_GivesUp ==
    /\ pc = "wait"
    /\ \/ /\ trace' = Append(trace, IF wifi THEN "wifi_ok" ELSE "wifi_timeout")
          /\ pc' = AfterGate
       \/ /\ ~wifi
          /\ UNCHANGED <<trace, pc>>
    /\ UNCHANGED <<sketch, ret, wifi, led, now, raw, line, parsed, dur_ms, peak,
                   code, body, nRead, nAccepted, nSendCalls, lastOutcome, allSame, readAt, lastToken>>

\* ensureWifi(), one evaluation of the while condition: leave the loop
\* (and return) when connected, delay(250) and stay otherwise
ensureWifi_poll ==
    /\ pc = "wait"
    /\ IF wifi
       THEN /\ trace' = Append(trace, "wifi_ok")
            /\ pc' = AfterGate
       ELSE UNCHANGED <<trace, pc>>
    /\ UNCHANGED <<sketch, ret, wifi, led, now, raw, line, parsed, dur_ms, peak,
                   code, body, nRead, nAccepted, nSendCalls, lastOutcome, allSame, readAt, lastToken>>

\* loop() with nothing on the link: Link.available() is false
LoopIdle ==
    /\ pc = "idle"
    /\ UNCHANGED vars

\* loop() of the Noise sketch up to the call of postNoise: read, trim, the
\* empty check, parseNOISE, led_on()
NoiseRead(r) ==
    /\ sketch = "Noise"
    /\ pc = "idle"
    /\ nRead < MaxLines
    /\ LET l == trim(r)
           p == parseNOISE(l, 0, Zero)
       IN  /\ raw' = r
           /\ line' = l
           /\ nRead' = nRead + 1
           /\ allSame' = (nRead = 0 \/ (allSame /\ r = raw))
           /\ code' = 0
           /\ body' = <<>>
           /\ IF Len(l) = 0
              THEN /\ trace' = <<"read", "empty">>
                   /\ pc' = "idle"
                   /\ lastOutcome' = "reject"
                   /\ parsed' = FALSE
                   /\ dur_ms' = 0
                   /\ peak' = Zero
                   /\ UNCHANGED <<led, nAccepted>>
              ELSE /\ parsed' = p.ok
                   /\ dur_ms' = p.dur
                   /\ peak' = p.peak
                   /\ IF p.ok
                      THEN /\ trace' = <<"read", "led_on">>
                           /\ led' = TRUE
                           /\ pc' = "send"
                           /\ nAccepted' = nAccepted + 1
                           /\ UNCHANGED lastOutcome
                      ELSE /\ trace' = <<"read", "warn">>
                           /\ pc' = "idle"
                           /\ lastOutcome' = "reject"
                           /\ UNCHANGED <<led, nAccepted>>
    /\ readAt' = now
    /\ UNCHANGED <<sketch, ret, wifi, now, nSendCalls, lastToken>>

\* loop() of the State sketch: read and trim
StateRead(r) ==
    /\ sketch = "State"
    /\ pc = "idle"
    /\ nRead < MaxLines
    /\ raw' = r
    /\ line' = trim(r)
    /\ nRead' = nRead + 1
    /\ nAccepted' = nAccepted + 1
    /\ allSame' = (nRead = 0 \/ (allSame /\ r = raw))
    /\ code' = 0
    /\ body' = <<>>
    /\ trace' = <<"read">>
    /\ pc' = "dispatch"
    /\ readAt' = now
    /\ lastToken' = IF trim(r) = W_LED_ON THEN "on"
                    ELSE IF trim(r) = W_LED_OFF THEN "off" ELSE lastToken
    /\ UNCHANGED <<sketch, ret, wifi, led, now, parsed, dur_ms, peak,
                   nSendCalls, lastOutcome>>

\* the LED comparisons made only while the network is up
StateDispatch_WhenConnected ==
    /\ sketch = "State"
    /\ pc = "dispatch"
    /\ IF wifi /\ line = W_LED_ON
       THEN /\ led' = TRUE
            /\ trace' = Append(trace, "led_on")
       ELSE IF wifi /\ line = W_LED_OFF
            THEN /\ led' = FALSE
                 /\ trace' = Append(trace, "led_off")
            ELSE UNCHANGED <<led, trace>>
    /\ pc' = "send"
    /\ UNCHANGED <<sketch, ret, wifi, now, raw, line, parsed, dur_ms, peak, code,
                   body, nRead, nAccepted, nSendCalls, lastOutcome, allSame, readAt, lastToken>>

\* the LED following every line: on for LED_ON, off for anything else
StateDispatch_ElseOff ==
    /\ sketch = "State"
    /\ pc = "dispatch"
    /\ IF line = W_LED_ON
       THEN /\ led' = TRUE
            /\ trace' = Append(trace, "led_on")
       ELSE /\ led' = FALSE
            /\ trace' = Append(trace, "led_off")
    /\ pc' = "send"
    /\ UNCHANGED <<sketch, ret, wifi, now, raw, line, parsed, dur_ms, peak, code,
                   body, nRead, nAccepted, nSendCalls, lastOutcome, allSame, readAt, lastToken>>

\* loop() of the State sketch: the two LED comparisons
StateDispatch ==
    /\ sketch = "State"
    /\ pc = "dispatch"
    /\ IF line = W_LED_ON
       THEN /\ led' = TRUE
            /\ trace' = Append(trace, "led_on")
       ELSE IF line = W_LED_OFF
            THEN /\ led' = FALSE
                 /\ trace' = Append(trace, "led_off")
            ELSE UNCHANGED <<led, trace>>
    /\ pc' = "send"
    /\ UNCHANGED <<sketch, ret, wifi, now, raw, line, parsed, dur_ms, peak, code,
                   body, nRead, nAccepted, nSendCalls, lastOutcome, allSame, readAt, lastToken>>

\* postNoise / postEvent without the call of ensureWifi()
PostEnter_NoGate ==
    /\ pc = "send"
    /\ nSendCalls' = nSendCalls + 1
    /\ trace' = Append(trace, "send")
    /\ ret' = "send"
    /\ pc' = "begin"
    /\ UNCHANGED <<sketch, wifi, led, now, raw, line, parsed, dur_ms, peak, code,
                   body, nRead, nAccepted, lastOutcome, allSame, readAt, lastToken>>

\* entry of postNoise / postEvent: the call of ensureWifi()
PostEnter ==
    /\ pc = "send"
    /\ nSendCalls' = nSendCalls + 1
    /\ trace' = Append(trace, "send")
    /\ ret' = "send"
    /\ pc' = "gate"
    /\ UNCHANGED <<sketch, wifi, led, now, raw, line, parsed, dur_ms, peak, code,
                   body, nRead, nAccepted, lastOutcome, allSame, readAt, lastToken>>

\* http.begin() returning false only logged: the function goes on to the
\* headers and the POST
HttpBegin_IgnoresFailure(ok) ==
    /\ pc = "begin"
    /\ trace' = Append(trace, IF ok THEN "begin" ELSE "begin_failed")
    /\ pc' = "post"
    /\ UNCHANGED <<sketch, ret, wifi, led, now, raw, line, parsed, dur_ms, peak,
                   code, body, nRead, nAccepted, nSendCalls, lastOutcome,
                   allSame, readAt, lastToken>>

\* postNoise / postEvent: http.begin() returns false or true
HttpBegin(ok) ==
    /\ pc = "begin"
    /\ IF ok
       THEN /\ trace' = Append(trace, "begin")
            /\ pc' = "post"
            /\ UNCHANGED code
       ELSE /\ trace' = Append(trace, "begin_failed")
            /\ code' = -1000
            /\ pc' = "report"
    /\ UNCHANGED <<sketch, ret, wifi, led, now, raw, line, parsed, dur_ms, peak,
                   body, nRead, nAccepted, nSendCalls, lastOutcome, allSame, readAt, lastToken>>

\* the body built from the line as read, before trim()
JsonBody_Untrimmed ==
    IF sketch = "Noise"
    THEN << <<"device_id", DeviceId>>, <<"duration_ms", LongToString(dur_ms)>>,
            <<"peak_dbfs", Fixed2(peak)>>, <<"esp_epoch", now>> >>
    ELSE << <<"device_id", DeviceId>>, <<"state", raw>>, <<"esp_epoch", now>> >>

\* the body stamped with the clock value taken when the line was read
JsonBody_StampAtRead ==
    IF sketch = "Noise"
    THEN << <<"device_id", DeviceId>>, <<"duration_ms", LongToString(dur_ms)>>,
            <<"peak_dbfs", Fixed2(peak)>>, <<"esp_epoch", readAt>> >>
    ELSE << <<"device_id", DeviceId>>, <<"state", line>>, <<"esp_epoch", readAt>> >>

\* the body with the peak written before the duration
JsonBody_PeakFirst ==
    IF sketch = "Noise"
    THEN << <<"device_id", DeviceId>>, <<"peak_dbfs", Fixed2(peak)>>,
            <<"duration_ms", LongToString(dur_ms)>>, <<"esp_epoch", now>> >>
    ELSE << <<"device_id", DeviceId>>, <<"state", line>>, <<"esp_epoch", now>> >>

\* the JSON body, as the ordered list of its members
JsonBody ==
    IF sketch = "Noise"
    THEN << <<"device_id", DeviceId>>, <<"duration_ms", LongToString(dur_ms)>>,
            <<"peak_dbfs", Fixed2(peak)>>, <<"esp_epoch", now>> >>
    ELSE << <<"device_id", DeviceId>>, <<"state", line>>, <<"esp_epoch", now>> >>

\* postNoise / postEvent after http.begin(): the headers, time(NULL), the
\* body, http.POST(body) returning c, http.end()
HttpPost(c) ==
    /\ pc = "post"
    /\ body' = JsonBody
    /\ code' = c
    /\ trace' = trace \o <<"headers", "time", "POST">>
    /\ pc' = "report"
    /\ UNCHANGED <<sketch, ret, wifi, led, now, raw, line, parsed, dur_ms, peak,
                   nRead, nAccepted, nSendCalls, lastOutcome, allSame, readAt, lastToken>>

\* the test without its lower bound
classify_NoLowerBound(c) == IF c < 400 THEN "ok" ELSE "fail"

\* the test of loop() on the returned code
classify(c) == IF c > 0 /\ c < 400 THEN "ok" ELSE "fail"

\* loop() stopping for good after a failed send
Report_HaltOnFailure ==
    /\ pc = "report"
    /\ lastOutcome' = classify(code)
    /\ trace' = Append(trace, classify(code))
    /\ led' = IF sketch = "Noise" THEN FALSE ELSE led
    /\ pc' = IF classify(code) = "ok" THEN "idle" ELSE "halt"
    /\ UNCHANGED <<sketch, ret, wifi, now, raw, line, parsed, dur_ms, peak, code,
                   body, nRead, nAccepted, nSendCalls, allSame, readAt, lastToken>>

\* loop() sending again after a failed send
Report_RetryOnFailure ==
    /\ pc = "report"
    /\ lastOutcome' = classify(code)
    /\ trace' = Append(trace, classify(code))
    /\ led' = IF sketch = "Noise" THEN FALSE ELSE led
    /\ pc' = IF classify(code) = "ok" THEN "idle" ELSE "send"
    /\ UNCHANGED <<sketch, ret, wifi, now, raw, line, parsed, dur_ms, peak, code,
                   body, nRead, nAccepted, nSendCalls, allSame, readAt, lastToken>>

\* loop() returning after the send without led_off()
Report_LedLeftOn ==
    /\ pc = "report"
    /\ lastOutcome' = classify(code)
    /\ trace' = Append(trace, classify(code))
    /\ pc' = "idle"
    /\ UNCHANGED <<sketch, ret, wifi, led, now, raw, line, parsed, dur_ms, peak,
                   code, body, nRead, nAccepted, nSendCalls, allSame, readAt, lastToken>>

\* loop() after the send: the OK / ERROR message, led_off() in the Noise
\* sketch, and the return to the caller of loop()
Report ==
    /\ pc = "report"
    /\ lastOutcome' = classify(code)
    /\ trace' = Append(trace, classify(code))
    /\ led' = IF sketch = "Noise" THEN FALSE ELSE led
    /\ pc' = "idle"
    /\ UNCHANGED <<sketch, ret, wifi, now, raw, line, parsed, dur_ms, peak, code,
                   body, nRead, nAccepted, nSendCalls, allSame, readAt, lastToken>>

\* the access point: the association comes up
WifiUp ==
    /\ ~wifi
    /\ wifi' = TRUE
    /\ UNCHANGED <<sketch, pc, ret, led, now, raw, line, parsed, dur_ms, peak,
                   code, body, trace, nRead, nAccepted, nSendCalls, lastOutcome,
                   allSame, readAt, lastToken>>

\* the access point: the association is lost
WifiDown ==
    /\ wifi
    /\ wifi' = FALSE
    /\ UNCHANGED <<sketch, pc, ret, led, now, raw, line, parsed, dur_ms, peak,
                   code, body, trace, nRead, nAccepted, nSendCalls, lastOutcome,
                   allSame, readAt, lastToken>>

\* the clock: a second passes while the thread sits in a delay() (the idle
\* loop, the polling loop of ensureWifi)
Tick ==
    /\ pc \in {"idle", "wait"}
    /\ now < MaxClock
    /\ now' = now + 1
    /\ UNCHANGED <<sketch, pc, ret, wifi, led, raw, line, parsed, dur_ms, peak,
                   code, body, trace, nRead, nAccepted, nSendCalls, lastOutcome,
                   allSame, readAt, lastToken>>

Next ==
    \/ setup
    \/ ensureWifi
    \/ ensureWifi_poll
    \/ LoopIdle
    \/ \E r \in LoopLines : NoiseRead(r)
    \/ \E r \in LoopLines : StateRead(r)
    \/ StateDispatch
    \/ PostEnter
    \/ \E ok \in BOOLEAN : HttpBegin(ok)
    \/ \E c \in PostCodes : HttpPost(c)
    \/ Report
    \/ WifiUp
    \/ WifiDown
    \/ Tick

Spec == Init /\ [][Next]_vars

---------------------------------------------------------------------------
(* The parser specification: parseNOISE, as loop() calls it, on every line *)
(* "NOISE <d> <p>" whose two fields are drawn from small alphabets.        *)

\* all strings over chars of length 0..n
Strings(chars, n) == UNION {[1..k -> chars] : k \in 0..n}

DurChars == {"0", "3", "-", "a"}

PeakChars == {"1", "5", ".", "-"}

\* duration fields at and beyond the largest long
BigDurs ==
    { <<"2", "1", "4", "7", "4", "8", "3", "6", "4", "7">>,
      F_big,
      <<"9", "9", "9", "9", "9", "9", "9", "9", "9", "9", "9">> }

\* third fields that are no numbers
ExtraFields == { <<"x">>, <<"-">>, <<"a", "1">> }

\* lines "NOISE <d> <p>", and lines "NOISE <d> <p> <extra>" (with the peak
\* fields one character shorter)
ParseLines ==
    { W_NOISE \o Sp \o d \o Sp \o p :
        d \in Strings(DurChars, MaxDurLen) \cup BigDurs,
        p \in Strings(PeakChars, MaxPeakLen) }
    \cup
    { W_NOISE \o Sp \o d \o Sp \o p \o Sp \o x :
        d \in Strings(DurChars, MaxDurLen),
        p \in Strings(PeakChars, MaxPeakLen - 1),
        x \in ExtraFields }

InitParse ==
    /\ sketch = "Noise"
    /\ pc = "parse"
    /\ raw \in ParseLines
    /\ ret = "setup"
    /\ wifi = FALSE
    /\ led = FALSE
    /\ now = 0
    /\ line = <<>>
    /\ parsed = FALSE
    /\ dur_ms = 0
    /\ peak = Zero
    /\ code = 0
    /\ body = <<>>
    /\ trace = <<>>
    /\ nRead = 0
    /\ nAccepted = 0
    /\ nSendCalls = 0
    /\ lastOutcome = "none"
    /\ allSame = TRUE
    /\ readAt = 0
    /\ lastToken = "none"

\* loop() of the Noise sketch, the trim and the call of parseNOISE with the
\* locals dur_ms = 0 and peak = 0.0f
ParseApply ==
    /\ pc = "parse"
    /\ LET l == trim(raw)
           p == parseNOISE(l, 0, Zero)
       IN  /\ line' = l
           /\ parsed' = p.ok
           /\ dur_ms' = p.dur
           /\ peak' = p.peak
    /\ pc' = "parsed"
    /\ UNCHANGED <<sketch, ret, wifi, led, now, raw, code, body, trace, nRead,
                   nAccepted, nSendCalls, lastOutcome, allSame, readAt, lastToken>>

NextParse == ParseApply

SpecParse == InitParse /\ [][NextParse]_vars

---------------------------------------------------------------------------
(* Vocabulary of the claims, stated on the text of a line and not through  *)
(* the String methods above.                                               *)

\* the elements of a sequence
Range(s) == {s[i] : i \in 1..Len(s)}

\* how many times e occurs in s
Count(s, e) == Cardinality({i \in 1..Len(s) : s[i] = e})

AllDigits(f) == \A i \in 1..Len(f) : f[i] \in Range(Digits)

\* f is the numeral of a positive integer: digits only, not all of them 0
IsPosInt(f) ==
    /\ Len(f) > 0
    /\ AllDigits(f)
    /\ \E i \in 1..Len(f) : f[i] # "0"

\* f without its sign, if it has one
Unsigned(f) == IF Len(f) > 0 /\ f[1] \in {"-", "+"} THEN Tail(f) ELSE f

\* f is an optionally signed decimal: digits with at most one '.'
IsDecimal(f) ==
    LET u == Unsigned(f)
    IN  /\ \A i \in 1..Len(u) : u[i] \in Range(Digits) \cup {"."}
        /\ Count(u, ".") <= 1
        /\ \E i \in 1..Len(u) : u[i] # "."

\* the fields of a line "NOISE <d> <p>": the set of <<d, p>> with d and p
\* free of spaces (one pair or none)
NoiseFields(l) ==
    { <<SubSeq(l, 7, i - 1), SubSeq(l, i + 1, Len(l))>> : i \in
        { j \in 7..Len(l) :
            /\ SubSeq(l, 1, 6) = W_NOISE \o Sp
            /\ l[j] = " "
            /\ \A k \in (7..Len(l)) \ {j} : l[k] # " " } }

\* f without its leading zeros (a numeral of a positive integer)
RECURSIVE Canon(_)
Canon(f) == IF Len(f) > 1 /\ f[1] = "0" THEN Canon(Tail(f)) ELSE f

\* a <= b for two numerals without leading zeros
RECURSIVE NumLeq(_, _)
NumLeq(a, b) ==
    IF Len(a) # Len(b) THEN Len(a) < Len(b)
    ELSE IF Len(a) = 0 THEN TRUE
    ELSE IF a[1] # b[1] THEN DigitVal(a[1]) < DigitVal(b[1])
    ELSE NumLeq(Tail(a), Tail(b))

\* the positive integer d is a value of long
FitsLong(d) == NumLeq(Canon(d), LongToString(LONG_MAX))

\* the digits of f, its '.' left out
DigitsOf(f) == SelectSeq(f, LAMBDA c : c \in Range(Digits))

RECURSIVE NumeralValue(_)
\* the value of a numeral, from its last digit
NumeralValue(f) ==
    IF Len(f) = 0 THEN 0
    ELSE DigitVal(f[Len(f)]) + 10 * NumeralValue(SubSeq(f, 1, Len(f) - 1))

\* digits after the '.' of the decimal f
FracLen(f) == IF "." \in Range(f) THEN Len(f) - (CHOOSE i \in 1..Len(f) : f[i] = ".") ELSE 0

\* x = the value of the decimal f
IsValueOf(x, f) ==
    LET m == NumeralValue(DigitsOf(f))
        v == IF Len(f) > 0 /\ f[1] = "-" THEN -m ELSE m
    IN  x.num * Pow10(FracLen(f)) = v * x.den

\* t is r without its leading and trailing white space
IsTrimOf(t, r) ==
    \E a \in 0..Len(r) : \E b \in 0..(Len(r) - a) :
        /\ t = SubSeq(r, a + 1, Len(r) - b)
        /\ \A i \in 1..a : IsSpace(r[i])
        /\ \A i \in (Len(r) - b + 1)..Len(r) : IsSpace(r[i])
        /\ Len(t) > 0 => (~IsSpace(t[1]) /\ ~IsSpace(t[Len(t)]))

\* the current iteration called postNoise / postEvent, or reached http.POST
Forwarded == "send" \in Range(trace) \/ "POST" \in Range(trace)

---------------------------------------------------------------------------
(* C1 *)

\* the duration field of a line: the text between its first space and the
\* next one (or the end of the line); empty when the line has no space
DurationField(l) ==
    IF " " \notin Range(l) THEN <<>>
    ELSE LET a == CHOOSE i \in 1..Len(l) : l[i] = " " /\ \A j \in 1..(i - 1) : l[j] # " "
             rest == SubSeq(l, a + 1, Len(l))
         IN  IF " " \notin Range(rest) THEN rest
             ELSE SubSeq(rest, 1, (CHOOSE i \in 1..Len(rest) :
                                     rest[i] = " " /\ \A j \in 1..(i - 1) : rest[j] # " ") - 1)

\* a line the claim says is rejected
BadNoiseLine(l) == ~startsWith(l, W_NOISE) \/ ~IsPosInt(DurationField(l))

\* C1: in the Noise sketch a line that does not begin with NOISE, or whose
\* duration field is not the numeral of a positive integer, is rejected by
\* parseNOISE and no send is made for it.  (Fails: "NOISE 12a 3" is accepted
\* with duration 12, toInt() reading the leading digits.)
C1_BadLineRejected ==
    (sketch = "Noise" /\ nRead > 0 /\ BadNoiseLine(line))
        => (~parsed /\ ~Forwarded)

---------------------------------------------------------------------------
(* C2 *)

\* the parse result for the fields <<d, p>>: accepted, duration d, peak p
ParsedAs(f) ==
    /\ parsed
    /\ LongToString(dur_ms) = Canon(f[1])
    /\ IsValueOf(peak, f[2])

\* C2 as stated: every line "NOISE <d> <p>", d a positive integer and p an
\* optionally signed decimal, parses to duration d and peak p.  (Fails for
\* d beyond the largest long: "NOISE 2147483648 ..." yields 2147483647.)
C2_WellFormedParsesExactly ==
    pc = "parsed" =>
        \A f \in NoiseFields(line) :
            (IsPosInt(f[1]) /\ IsDecimal(f[2])) => ParsedAs(f)

\* C2 amended: the same for every d that is a value of long
\* (d <= 2147483647).
C2_WellFormedParsesExactlyInLong ==
    pc = "parsed" =>
        \A f \in NoiseFields(line) :
            (IsPosInt(f[1]) /\ FitsLong(f[1]) /\ IsDecimal(f[2])) => ParsedAs(f)

\* "NOISE 30 -1.5" has been parsed to 30 and -1.5
C2_Witness ==
    /\ pc = "parsed"
    /\ line = W_NOISE \o Sp \o <<"3", "0">> \o Sp \o <<"-", "1", ".", "5">>
    /\ parsed
    /\ dur_ms = 30
    /\ peak = [num |-> -15, den |-> 10]

---------------------------------------------------------------------------
(* C3 *)

LedTokens == {W_LED_ON, W_LED_OFF}

\* what an iteration does on the network side
NetEvents == {"send", "wifi_ok", "wifi_begin", "begin", "begin_failed", "POST"}

\* C3: in the State sketch, once a line equal to LED_ON or LED_OFF has been
\* dispatched, the LED was written exactly once in the iteration, as the
\* step right after the read and before every network step, and it shows
\* the token, whatever the network state and the send outcome.
C3_SideEffectOnceBeforeNetwork ==
    (sketch = "State" /\ nRead > 0 /\ pc # "dispatch" /\ line \in LedTokens)
        => /\ Count(trace, "led_on") + Count(trace, "led_off") = 1
           /\ trace[2] = (IF line = W_LED_ON THEN "led_on" ELSE "led_off")
           /\ \A i \in 1..Len(trace) : trace[i] \in NetEvents => i > 2
           /\ led = (line = W_LED_ON)

\* LED_ON was received while the network was down, the gate had to wait,
\* the send failed, and the LED is lit
C3_Witness ==
    /\ sketch = "State"
    /\ pc = "idle"
    /\ line = W_LED_ON
    /\ "wifi_begin" \in Range(trace)
    /\ lastOutcome = "fail"
    /\ Count(trace, "led_on") = 1
    /\ led

---------------------------------------------------------------------------
(* C4 *)

\* the State body for the line as read
IsStateBodyOf(b, r) ==
    /\ Len(b) = 3
    /\ b[1] = <<"device_id", "esp32-s3-01">>
    /\ b[2][1] = "state"
    /\ IsTrimOf(b[2][2], r)
    /\ b[3][1] = "esp_epoch"

\* the iteration is over
IterationDone == pc = "idle" /\ nRead > 0

\* C4 as stated: in the State sketch every received line gets exactly one
\* POST, whose body carries the trimmed line as `state` and device_id
\* "esp32-s3-01".  (Fails when http.begin() returns false: postEvent
\* returns -1000 and no POST is made.)
C4_ExactlyOnePost ==
    (sketch = "State" /\ IterationDone)
        => (Count(trace, "POST") = 1 /\ IsStateBodyOf(body, raw))

\* C4 amended: every received line gets exactly one call of postEvent; the
\* call makes exactly one POST, with that body, unless http.begin() fails,
\* and then it makes none.
C4_OnePostUnlessBeginFails ==
    /\ sketch = "State" => Count(trace, "POST") <= 1
    /\ (sketch = "State" /\ IterationDone)
        => /\ Count(trace, "send") = 1
           /\ IF "begin_failed" \in Range(trace)
              THEN Count(trace, "POST") = 0 /\ body = <<>>
              ELSE Count(trace, "POST") = 1 /\ IsStateBodyOf(body, raw)

\* a padded line has been posted with its trimmed text
C4_Witness ==
    /\ sketch = "State"
    /\ IterationDone
    /\ raw = Sp \o W_LED_ON
    /\ Count(trace, "POST") = 1
    /\ body[2] = <<"state", W_LED_ON>>

---------------------------------------------------------------------------
(* C5 *)

\* C5: in both sketches a line that is empty after trimming is rejected:
\* no send is made for it.  (Fails in the State sketch, whose loop() has
\* no empty check and posts the event with state "".)
C5_EmptyLineRejected ==
    (nRead > 0 /\ Len(line) = 0) => ~Forwarded

---------------------------------------------------------------------------
(* C6 *)

\* the iteration ended with the report on a send
Reported == IterationDone /\ trace[Len(trace)] \in {"ok", "fail"}

\* C6 as stated: the loop reports success exactly for the codes 100..399.
\* (Fails for the codes 1..99, which the loop reports as success.)
C6_SuccessIff100To399 ==
    Reported => (lastOutcome = "ok" <=> code \in 100..399)

\* C6 amended: the loop reports success exactly for the codes 1..399
\* and an error for every other code; each code is in one bucket: success
\* (1..399), remote failure (>= 400) or local failure (negative).
C6_SuccessIff1To399 ==
    Reported =>
        /\ lastOutcome = "ok" <=> code \in 1..399
        /\ lastOutcome = "fail" <=> (code >= 400 \/ code < 0)
        /\ Cardinality({b \in {"success", "remote", "local"} :
                \/ b = "success" /\ code \in 1..399
                \/ b = "remote" /\ code >= 400
                \/ b = "local" /\ code < 0}) = 1

\* a send that returned 99 has been reported as a success
C6_Witness ==
    /\ Reported
    /\ code = 99
    /\ lastOutcome = "ok"

---------------------------------------------------------------------------
(* C7 *)

LoopPcs == {"setup", "idle", "dispatch", "send", "gate", "wait", "begin",
            "post", "report"}

\* what loop() does with the line r it reads, up to the send call
ProcessedFresh(r) ==
    /\ IsTrimOf(line', r)
    /\ Count(trace', "send") = 0
    /\ IF sketch = "State"
       THEN pc' = "dispatch" /\ led' = led
       ELSE LET p == parseNOISE(line', 0, Zero)
            IN  IF Len(line') > 0 /\ p.ok
                THEN pc' = "send" /\ led' /\ dur_ms' = p.dur /\ peak' = p.peak
                ELSE pc' = "idle" /\ led' = led /\ lastOutcome' = "reject"

\* C7: no state is fatal: the thread is always at a location of setup() or
\* loop(), the report on a send (failed or not) leads back to the idle
\* loop, a rejected line leaves the thread there, and the next line is read
\* and processed in the same way whatever the previous outcome was, through
\* a new send call.
C7_FailureIsolation ==
    /\ [](pc \in LoopPcs)
    /\ [][/\ (pc = "report" /\ pc' # "report") => pc' = "idle"
          /\ nRead' # nRead =>
                (pc = "idle" /\ nRead' = nRead + 1 /\ ProcessedFresh(raw'))
          /\ (pc = "dispatch" /\ pc' # "dispatch") =>
                (pc' = "send" /\ led' = (IF line \in LedTokens THEN line = W_LED_ON ELSE led))
          /\ (pc = "send" /\ pc' # "send") =>
                (pc' = "gate" /\ nSendCalls' = nSendCalls + 1)]_vars

\* the send of the first line failed with a transport error, and the second
\* line is on its way to the POST, through a send call of its own
C7_Witness ==
    /\ nRead = 2
    /\ pc = "post"
    /\ lastOutcome = "fail"
    /\ Count(trace, "send") = 1
    /\ nSendCalls = 2

---------------------------------------------------------------------------
(* C8 *)

\* C8: a line that yields an event gets exactly one send call, which is
\* never repeated: an iteration holds at most one send call and one POST,
\* and the send calls made so far are as many as the lines that yielded an
\* event, the same line read again counting again.
C8_OneAttemptPerEvent ==
    /\ Count(trace, "send") <= 1
    /\ Count(trace, "POST") <= 1
    /\ nSendCalls = nAccepted - (IF pc \in {"dispatch", "send"} THEN 1 ELSE 0)
    /\ IterationDone => Count(trace, "send") = (IF trace[Len(trace)] \in {"ok", "fail"} THEN 1 ELSE 0)

\* the same line was read MaxLines times, the first send failed, and
\* MaxLines send calls were made
C8_Witness ==
    /\ IterationDone
    /\ nRead = MaxLines
    /\ allSame
    /\ nAccepted = MaxLines
    /\ nSendCalls = MaxLines
    /\ lastOutcome = "fail"

---------------------------------------------------------------------------
(* C9 *)

\* C9: in an iteration, http.begin() and http.POST() come after a return
\* of ensureWifi() that saw the association established in this same
\* iteration, after the send call.
C9_GateBeforeSend ==
    /\ \A i \in 1..Len(trace) :
          trace[i] \in {"begin", "begin_failed", "POST"} =>
              \E j \in 1..(i - 1) : \E k \in 1..(j - 1) :
                  trace[k] = "send" /\ trace[j] = "wifi_ok"
    /\ pc \in {"begin", "post"} => "wifi_ok" \in Range(trace)

\* the gate had to wait, saw the association, and the association is lost
\* again when the POST is about to be made
C9_Witness ==
    /\ pc = "post"
    /\ "wifi_begin" \in Range(trace)
    /\ "wifi_ok" \in Range(trace)
    /\ ~wifi

---------------------------------------------------------------------------
(* C10 *)

GatePcs == {"gate", "wait"}

\* C10: while the thread is in ensureWifi() and the association is not
\* established, every step leaves it in ensureWifi(), makes no POST and
\* reads no line; however long that lasts, it leaves only from a state
\* where the association is established.
C10_GateNeverTimesOut ==
    [][/\ (pc \in GatePcs /\ ~wifi) =>
             /\ pc' \in GatePcs
             /\ nRead' = nRead
             /\ Count(trace', "POST") = Count(trace, "POST")
             /\ body' = body
       /\ (pc \in GatePcs /\ pc' \notin GatePcs) => wifi]_vars

\* the send of a line is stalled in the polling loop, the association is
\* down and the clock has run to the end
C10_Witness ==
    /\ pc = "wait"
    /\ ret = "send"
    /\ ~wifi
    /\ nRead > 0
    /\ now = MaxClock

---------------------------------------------------------------------------
(* C11 *)

\* C11: once http.begin() has returned false in an iteration, the send
\* function has returned -1000 with no header added, no clock sampled, no
\* body built and no POST made; the loop has the code to report or has
\* reported it as a failure and is back in the idle loop, where the next
\* line is read.
C11_BeginFailureReturnsSentinel ==
    "begin_failed" \in Range(trace) =>
        /\ code = -1000
        /\ Range(trace) \cap {"begin", "headers", "time", "POST"} = {}
        /\ body = <<>>
        /\ pc \in {"report", "idle"}
        /\ pc = "idle" => (lastOutcome = "fail" /\ trace[Len(trace)] = "fail")

\* http.begin() failed for the first line, the failure was reported, and
\* the next line can be read
C11_Witness ==
    /\ nRead = 1
    /\ pc = "idle"
    /\ "begin_failed" \in Range(trace)
    /\ code = -1000
    /\ lastOutcome = "fail"
    /\ \E r \in LoopLines : ENABLED NoiseRead(r) \/ ENABLED StateRead(r)

---------------------------------------------------------------------------
(* C12 *)

\* the esp_epoch member of a body (its last member)
EpochOf(b) == b[Len(b)][2]

\* C12: the esp_epoch of a body is the clock value at the step that makes
\* the POST, a step taken after ensureWifi() has returned in this
\* iteration; it is never earlier than the clock value at the read of the
\* line, and the seconds that passed in the gate are in it.
C12_EpochSampledAtSend ==
    /\ [](body # <<>> =>
            /\ body[Len(body)][1] = "esp_epoch"
            /\ EpochOf(body) >= readAt)
    /\ [][(pc = "post" /\ pc' = "report") =>
            /\ "wifi_ok" \in Range(trace)
            /\ EpochOf(body') = now]_vars

\* the line was read, the send waited in the gate while the clock went on,
\* and the body carries the later clock value
C12_Witness ==
    /\ pc = "report"
    /\ "wifi_begin" \in Range(trace)
    /\ body # <<>>
    /\ EpochOf(body) > readAt
    /\ EpochOf(body) = now

---------------------------------------------------------------------------
(* C13 *)

\* h hundredths is the decimal x rounded to two fraction digits
IsHundredthsOf(h, x) ==
    LET diff == 100 * x.num - h * x.den
    IN  2 * (IF diff < 0 THEN -diff ELSE diff) <= x.den

\* C13: in the Noise sketch a body exists only for an accepted line, it is
\* the body of the one POST of the iteration, and its members are, in this
\* order, device_id "esp32-01", duration_ms the duration parseNOISE returns
\* for the line of this iteration (its duration field itself when that is a
\* numeral within long), peak_dbfs the peak parseNOISE returns for it, to
\* two decimals, and esp_epoch.
C13_NoiseBodyFromParsedLine ==
    (sketch = "Noise" /\ body # <<>>) =>
        LET p == parseNOISE(line, 0, Zero)
            f == DurationField(line)
        IN  /\ parsed /\ p.ok
            /\ Count(trace, "POST") = 1
            /\ Len(body) = 4
            /\ body[1] = <<"device_id", "esp32-01">>
            /\ body[2] = <<"duration_ms", LongToString(p.dur)>>
            /\ (IsPosInt(f) /\ FitsLong(f)) => body[2][2] = Canon(f)
            /\ body[3][1] = "peak_dbfs"
            /\ IsHundredthsOf(body[3][2], p.peak)
            /\ body[4][1] = "esp_epoch"

\* "NOISE 1234 -12.34" has been posted as device esp32-01, 1234 ms,
\* -12.34 dBFS
C13_Witness ==
    /\ sketch = "Noise"
    /\ pc = "report"
    /\ line = W_NOISE \o Sp \o F_1234 \o Sp \o F_m12_34
    /\ body = << <<"device_id", "esp32-01">>, <<"duration_ms", F_1234>>,
                 <<"peak_dbfs", -1234>>, <<"esp_epoch", now>> >>

---------------------------------------------------------------------------
(* C14 *)

\* the fields of a line "NOISE <d> <p> <extra>": the set of <<d, p, extra>>
\* with the three of them free of spaces (one triple or none)
NoiseFields3(l) ==
    { <<SubSeq(l, 7, ij[1] - 1), SubSeq(l, ij[1] + 1, ij[2] - 1),
        SubSeq(l, ij[2] + 1, Len(l))>> : ij \in
        { t \in (7..Len(l)) \X (7..Len(l)) :
            /\ SubSeq(l, 1, 6) = W_NOISE \o Sp
            /\ t[1] < t[2]
            /\ l[t[1]] = " "
            /\ l[t[2]] = " "
            /\ \A k \in (7..Len(l)) \ {t[1], t[2]} : l[k] # " " } }

\* C14: a line "NOISE <d> <p> <extra>", d a positive integer within long,
\* p a decimal and extra a non-empty field that is no number, is accepted
\* with duration d and peak p: the duration is read between the first two
\* spaces, the peak from the text after the second one, and the result is
\* that of "NOISE <d> <p>".
C14_ExtraFieldTolerated ==
    pc = "parsed" =>
        \A f \in NoiseFields3(line) :
            (/\ IsPosInt(f[1])
             /\ FitsLong(f[1])
             /\ IsDecimal(f[2])
             /\ Len(f[3]) > 0
             /\ ~IsDecimal(f[3]))
            => /\ ParsedAs(<<f[1], f[2]>>)
               /\ parseNOISE(W_NOISE \o Sp \o f[1] \o Sp \o f[2], 0, Zero)
                    = [ok |-> parsed, dur |-> dur_ms, peak |-> peak]

\* "NOISE 30 1.5 a1" has been parsed to 30 and 1.5
C14_Witness ==
    /\ pc = "parsed"
    /\ line = W_NOISE \o Sp \o <<"3", "0">> \o Sp \o <<"1", ".", "5">> \o Sp \o <<"a", "1">>
    /\ parsed
    /\ dur_ms = 30
    /\ peak = [num |-> 15, den |-> 10]

---------------------------------------------------------------------------
(* C15 *)

\* the thread of the Noise sketch is between led_on() and led_off(): in
\* postNoise (its gate included) or at the report after it
InNoiseSend ==
    /\ sketch = "Noise"
    /\ \/ pc \in {"send", "begin", "post", "report"}
       \/ pc \in GatePcs /\ ret = "send"

\* C15: in the Noise sketch the LED is off whenever loop() is idle (and
\* during the gate of setup()); it is on exactly while an accepted
\* measurement is being sent, the stay in the gate included; an empty or a
\* rejected line never turns it on; it goes on only at the acceptance of a
\* line by parseNOISE and goes off only when the iteration ends, whatever
\* the outcome of the send.
C15_LedOnlyWhileSending ==
    /\ [](sketch = "Noise" =>
            /\ led = InNoiseSend
            /\ led => (parsed /\ parseNOISE(line, 0, Zero).ok)
            /\ pc = "idle" => ~led
            /\ (pc = "idle" /\ nRead > 0 /\ trace[2] \in {"empty", "warn"})
                  => "led_on" \notin Range(trace))
    /\ [][sketch = "Noise" =>
            /\ (~led /\ led') => /\ pc = "idle"
                                 /\ pc' = "send"
                                 /\ parseNOISE(line', 0, Zero).ok
            /\ (led /\ ~led') => /\ pc = "report"
                                 /\ pc' = "idle"
                                 /\ lastOutcome' \in {"ok", "fail"}]_vars

\* after a rejected line, an accepted one is waiting in the gate of the
\* send with the network down and the LED on
C15_Witness ==
    /\ sketch = "Noise"
    /\ nRead = 2
    /\ lastOutcome = "reject"
    /\ pc = "wait"
    /\ ret = "send"
    /\ ~wifi
    /\ led

---------------------------------------------------------------------------
(* C16 *)

\* C16: in the State sketch the LED changes only at the comparisons of
\* loop(), and only when the trimmed line is exactly LED_ON or LED_OFF,
\* to the value the token names; every other line (the empty one, a token
\* in other case or with an inner space) and every outcome of the send
\* leave it alone.  So outside the step between the read and the
\* comparisons the LED shows the last recognized token received, and is
\* off when none has been received since startup.
C16_LedFollowsLastToken ==
    /\ [](sketch = "State" /\ pc # "dispatch" => led = (lastToken = "on"))
    /\ [][sketch = "State" /\ led' # led =>
            /\ pc = "dispatch"
            /\ line \in LedTokens
            /\ led' = (line = W_LED_ON)]_vars
    /\ [][sketch = "State" /\ pc = "dispatch" /\ pc' # "dispatch"
                /\ line \in LedTokens =>
            led' = (line = W_LED_ON)]_vars

\* LED_ON was received earlier; a later line "led_on" has been posted, the
\* send has failed, and the LED is still on at the loop boundary
C16_Witness ==
    /\ sketch = "State"
    /\ pc = "idle"
    /\ nRead >= 2
    /\ line = <<"l", "e", "d", "_", "o", "n">>
    /\ "POST" \in Range(trace)
    /\ lastOutcome = "fail"
    /\ lastToken = "on"
    /\ led

=============================================================================
